---- MODULE Spec2Model ----
(***************************************************************************)
(* Model of the spektate backend configuration resolver                    *)
(* (backend/src/config.ts) and author resolver (backend/src/lib/author.ts).*)
(*                                                                         *)
(* JavaScript values are records tagged by "type"; objects are records of  *)
(* their own properties.  process.env is a function from variable names to *)
(* a string or undefined.  Each exported function is an operator over the  *)
(* environment, and one action that calls it and records the outcome.      *)
(***************************************************************************)
EXTENDS Integers, Sequences, FiniteSets, TLC

VARIABLES env, deployment, op, result, fetchCalls, console

vars == <<env, deployment, op, result, fetchCalls, console>>

(***************************************************************************)
(* JavaScript values                                                       *)
(***************************************************************************)
Undefined == [type |-> "undefined"]

Str(chars) == [type |-> "string", chars |-> chars]

Num(n) == [type |-> "number", nan |-> FALSE, value |-> n]

NaN == [type |-> "number", nan |-> TRUE]

Bool(b) == [type |-> "boolean", value |-> b]

Error(message) == [type |-> "error", message |-> message]

Return(v) == [kind |-> "return", value |-> v]

Throw(e) == [kind |-> "throw", value |-> e]

EmptyString == Str(<< >>)

\* ToBoolean on the values that occur: undefined and "" are falsy, every
\* other string and every object is truthy.
Truthy(v) == v # Undefined /\ v # EmptyString

\* a || b
Or(a, b) == IF Truthy(a) THEN a ELSE b

\* obj.name : a property the object does not have reads as undefined
Prop(obj, name) == IF name \in DOMAIN obj THEN obj[name] ELSE Undefined

\* obj?.name
OptProp(obj, name) == IF obj = Undefined THEN Undefined ELSE Prop(obj, name)

(***************************************************************************)
(* Enumerations                                                            *)
(***************************************************************************)
RepositoryType == [AZDO |-> 0, GITHUB |-> 1, GITLAB |-> 2]

PipelineType == [AZDO |-> 0, GITHUB_ACTIONS |-> 1, GITLAB |-> 2]

(***************************************************************************)
(* Environment variables read by the code                                  *)
(***************************************************************************)
PipelineVars ==
  { "REACT_APP_AZDO_ORG", "REACT_APP_AZDO_PROJECT", "REACT_APP_AZDO_ACCESS_TOKEN",
    "REACT_APP_GITHUB_TOKEN", "REACT_APP_GITLAB_TOKEN" }

RepoVars ==
  { "REACT_APP_AZDO_MANIFEST_REPO", "REACT_APP_AZDO_ACCESS_TOKEN",
    "REACT_APP_GITHUB_MANIFEST_REPO", "REACT_APP_GITHUB_HLD_REPO",
    "REACT_APP_GITHUB_SOURCE_REPO", "REACT_APP_GITHUB_TOKEN",
    "REACT_APP_GITLAB_SOURCE_PROJECT_ID", "REACT_APP_GITLAB_HLD_PROJECT_ID",
    "REACT_APP_GITLAB_MANIFEST_PROJECT_ID", "REACT_APP_GITLAB_TOKEN" }

StorageVars ==
  { "REACT_APP_STORAGE_ACCESS_KEY", "REACT_APP_STORAGE_ACCOUNT_NAME",
    "REACT_APP_STORAGE_PARTITION_KEY", "REACT_APP_STORAGE_TABLE_NAME" }

CacheVars == { "REACT_APP_CACHE_REFRESH_INTERVAL_IN_SEC" }

EnvVars == PipelineVars \cup RepoVars \cup StorageVars \cup CacheVars

\* The environment with nothing set.
EmptyEnv == [n \in EnvVars |-> Undefined]

(***************************************************************************)
(* config.ts                                                               *)
(***************************************************************************)
\* getPipelineConfig with the GitLab test ahead of the GitHub test.
getPipelineConfigGitlabFirst(e) ==
  IF Truthy(e["REACT_APP_AZDO_ORG"]) /\ Truthy(e["REACT_APP_AZDO_PROJECT"])
  THEN [ pipelineType |-> PipelineType.AZDO,
         pipelineConfig |->
           [ org |-> e["REACT_APP_AZDO_ORG"],
             project |-> e["REACT_APP_AZDO_PROJECT"],
             accessToken |-> e["REACT_APP_AZDO_ACCESS_TOKEN"] ] ]
  ELSE IF Truthy(e["REACT_APP_GITLAB_TOKEN"])
  THEN [ pipelineType |-> PipelineType.GITLAB,
         pipelineConfig |-> [ accessToken |-> e["REACT_APP_GITLAB_TOKEN"] ] ]
  ELSE IF Truthy(e["REACT_APP_GITHUB_TOKEN"])
  THEN [ pipelineType |-> PipelineType.GITHUB_ACTIONS,
         pipelineConfig |-> [ accessToken |-> e["REACT_APP_GITHUB_TOKEN"] ] ]
  ELSE [ pipelineType |-> 0, pipelineConfig |-> Undefined ]

getPipelineConfig(e) ==
  IF Truthy(e["REACT_APP_AZDO_ORG"]) /\ Truthy(e["REACT_APP_AZDO_PROJECT"])
  THEN [ pipelineType |-> PipelineType.AZDO,
         pipelineConfig |->
           [ org |-> e["REACT_APP_AZDO_ORG"],
             project |-> e["REACT_APP_AZDO_PROJECT"],
             accessToken |-> e["REACT_APP_AZDO_ACCESS_TOKEN"] ] ]
  ELSE IF Truthy(e["REACT_APP_GITHUB_TOKEN"])
  THEN [ pipelineType |-> PipelineType.GITHUB_ACTIONS,
         pipelineConfig |-> [ accessToken |-> e["REACT_APP_GITHUB_TOKEN"] ] ]
  ELSE IF Truthy(e["REACT_APP_GITLAB_TOKEN"])
  THEN [ pipelineType |-> PipelineType.GITLAB,
         pipelineConfig |-> [ accessToken |-> e["REACT_APP_GITLAB_TOKEN"] ] ]
  ELSE [ pipelineType |-> 0, pipelineConfig |-> Undefined ]

\* getReposConfig with the GitHub branch also asking for GITHUB_TOKEN, as the
\* GitLab branch asks for GITLAB_TOKEN.
getReposConfigGithubNeedsToken(e) ==
  IF Truthy(e["REACT_APP_AZDO_MANIFEST_REPO"])
  THEN [ repoType |-> RepositoryType.AZDO,
         reposConfig |->
           [ manifestRepo |-> e["REACT_APP_AZDO_MANIFEST_REPO"],
             accessToken |-> e["REACT_APP_AZDO_ACCESS_TOKEN"] ] ]
  ELSE IF /\ Truthy(e["REACT_APP_GITHUB_MANIFEST_REPO"])
          /\ Truthy(e["REACT_APP_GITHUB_HLD_REPO"])
          /\ Truthy(e["REACT_APP_GITHUB_SOURCE_REPO"])
          /\ Truthy(e["REACT_APP_GITHUB_TOKEN"])
  THEN [ repoType |-> RepositoryType.GITHUB,
         reposConfig |->
           [ manifestRepo |-> e["REACT_APP_GITHUB_MANIFEST_REPO"],
             hldRepo |-> e["REACT_APP_GITHUB_HLD_REPO"],
             sourceRepo |-> e["REACT_APP_GITHUB_SOURCE_REPO"],
             accessToken |-> e["REACT_APP_GITHUB_TOKEN"] ] ]
  ELSE IF /\ Truthy(e["REACT_APP_GITLAB_SOURCE_PROJECT_ID"])
          /\ Truthy(e["REACT_APP_GITLAB_HLD_PROJECT_ID"])
          /\ Truthy(e["REACT_APP_GITLAB_MANIFEST_PROJECT_ID"])
          /\ Truthy(e["REACT_APP_GITLAB_TOKEN"])
  THEN [ repoType |-> RepositoryType.GITLAB,
         reposConfig |->
           [ manifestProjectId |-> e["REACT_APP_GITLAB_MANIFEST_PROJECT_ID"],
             hldRepoProjectId |-> e["REACT_APP_GITLAB_HLD_PROJECT_ID"],
             sourceRepoProjectId |-> e["REACT_APP_GITLAB_SOURCE_PROJECT_ID"],
             accessToken |-> e["REACT_APP_GITLAB_TOKEN"] ] ]
  ELSE [ repoType |-> 0, reposConfig |-> Undefined ]

getReposConfig(e) ==
  IF Truthy(e["REACT_APP_AZDO_MANIFEST_REPO"])
  THEN [ repoType |-> RepositoryType.AZDO,
         reposConfig |->
           [ manifestRepo |-> e["REACT_APP_AZDO_MANIFEST_REPO"],
             accessToken |-> e["REACT_APP_AZDO_ACCESS_TOKEN"] ] ]
  ELSE IF /\ Truthy(e["REACT_APP_GITHUB_MANIFEST_REPO"])
          /\ Truthy(e["REACT_APP_GITHUB_HLD_REPO"])
          /\ Truthy(e["REACT_APP_GITHUB_SOURCE_REPO"])
  THEN [ repoType |-> RepositoryType.GITHUB,
         reposConfig |->
           [ manifestRepo |-> e["REACT_APP_GITHUB_MANIFEST_REPO"],
             hldRepo |-> e["REACT_APP_GITHUB_HLD_REPO"],
             sourceRepo |-> e["REACT_APP_GITHUB_SOURCE_REPO"],
             accessToken |-> e["REACT_APP_GITHUB_TOKEN"] ] ]
  ELSE IF /\ Truthy(e["REACT_APP_GITLAB_SOURCE_PROJECT_ID"])
          /\ Truthy(e["REACT_APP_GITLAB_HLD_PROJECT_ID"])
          /\ Truthy(e["REACT_APP_GITLAB_MANIFEST_PROJECT_ID"])
          /\ Truthy(e["REACT_APP_GITLAB_TOKEN"])
  THEN [ repoType |-> RepositoryType.GITLAB,
         reposConfig |->
           [ manifestProjectId |-> e["REACT_APP_GITLAB_MANIFEST_PROJECT_ID"],
             hldRepoProjectId |-> e["REACT_APP_GITLAB_HLD_PROJECT_ID"],
             sourceRepoProjectId |-> e["REACT_APP_GITLAB_SOURCE_PROJECT_ID"],
             accessToken |-> e["REACT_APP_GITLAB_TOKEN"] ] ]
  ELSE [ repoType |-> 0, reposConfig |-> Undefined ]

ConfigErrorMessage == "Pipeline and/or repository could not be recognized."

\* getConfig also refusing an environment without a storage account name.
getConfigRequiresStorage(e) ==
  LET p == getPipelineConfig(e)
      r == getReposConfig(e)
  IN  IF /\ Truthy(p.pipelineConfig) /\ Truthy(r.reposConfig)
         /\ Truthy(e["REACT_APP_STORAGE_ACCOUNT_NAME"])
      THEN Return(
             [ pipelineConfig |-> p.pipelineConfig,
               repoConfig |-> r.reposConfig,
               storageAccessKey |-> Or(e["REACT_APP_STORAGE_ACCESS_KEY"], EmptyString),
               storageAccountName |-> Or(e["REACT_APP_STORAGE_ACCOUNT_NAME"], EmptyString),
               storagePartitionKey |-> Or(e["REACT_APP_STORAGE_PARTITION_KEY"], EmptyString),
               storageTableName |-> Or(e["REACT_APP_STORAGE_TABLE_NAME"], EmptyString),
               repoType |-> r.repoType,
               pipelineType |-> p.pipelineType ])
      ELSE Throw(Error(ConfigErrorMessage))

\* The outcome of getConfig(): Return(config) or Throw(Error(...)).
getConfig(e) ==
  LET p == getPipelineConfig(e)
      r == getReposConfig(e)
  IN  IF Truthy(p.pipelineConfig) /\ Truthy(r.reposConfig)
      THEN Return(
             [ pipelineConfig |-> p.pipelineConfig,
               repoConfig |-> r.reposConfig,
               storageAccessKey |-> Or(e["REACT_APP_STORAGE_ACCESS_KEY"], EmptyString),
               storageAccountName |-> Or(e["REACT_APP_STORAGE_ACCOUNT_NAME"], EmptyString),
               storagePartitionKey |-> Or(e["REACT_APP_STORAGE_PARTITION_KEY"], EmptyString),
               storageTableName |-> Or(e["REACT_APP_STORAGE_TABLE_NAME"], EmptyString),
               repoType |-> r.repoType,
               pipelineType |-> p.pipelineType ])
      ELSE Throw(Error(ConfigErrorMessage))

\* The predicates below call getConfig() first; its throw propagates.
isAzdo(e) ==
  LET c == getConfig(e)
  IN  IF c.kind = "throw" THEN c
      ELSE Return(Bool(
             /\ c.value.pipelineType = PipelineType.AZDO
             /\ Prop(c.value.pipelineConfig, "org") # Undefined
             /\ Prop(c.value.pipelineConfig, "project") # Undefined
             /\ Prop(c.value.repoConfig, "manifestRepo") # Undefined))

isGithubActions(e) ==
  LET c == getConfig(e)
  IN  IF c.kind = "throw" THEN c
      ELSE Return(Bool(
             /\ c.value.pipelineType = PipelineType.GITHUB_ACTIONS
             /\ Prop(c.value.repoConfig, "sourceRepo") # Undefined
             /\ Prop(c.value.repoConfig, "hldRepo") # Undefined
             /\ Prop(c.value.repoConfig, "manifestRepo") # Undefined))

\* isGitlab testing manifestRepo, the GitHub field, for the manifest project.
isGitlabWrongField(e) ==
  LET c == getConfig(e)
  IN  IF c.kind = "throw" THEN c
      ELSE Return(Bool(
             /\ c.value.pipelineType = PipelineType.GITLAB
             /\ Prop(c.value.repoConfig, "sourceRepoProjectId") # Undefined
             /\ Prop(c.value.repoConfig, "hldRepoProjectId") # Undefined
             /\ Prop(c.value.repoConfig, "manifestRepo") # Undefined))

isGitlab(e) ==
  LET c == getConfig(e)
  IN  IF c.kind = "throw" THEN c
      ELSE Return(Bool(
             /\ c.value.pipelineType = PipelineType.GITLAB
             /\ Prop(c.value.repoConfig, "sourceRepoProjectId") # Undefined
             /\ Prop(c.value.repoConfig, "hldRepoProjectId") # Undefined
             /\ Prop(c.value.repoConfig, "manifestProjectId") # Undefined))

\* isConfigValid without the test of the partition key.
isConfigValidNoPartitionKey(e) ==
  LET c == getConfig(e)
  IN  IF c.kind = "throw" THEN c
      ELSE Return(Bool(
             /\ \/ isAzdo(e).value.value
                \/ isGithubActions(e).value.value
                \/ isGitlab(e).value.value
             /\ Truthy(c.value.storageAccountName)
             /\ Truthy(c.value.storageAccessKey)
             /\ Truthy(c.value.storageTableName)))

isConfigValid(e) ==
  LET c == getConfig(e)
  IN  IF c.kind = "throw" THEN c
      ELSE Return(Bool(
             /\ \/ isAzdo(e).value.value
                \/ isGithubActions(e).value.value
                \/ isGitlab(e).value.value
             /\ Truthy(c.value.storageAccountName)
             /\ Truthy(c.value.storageAccessKey)
             /\ Truthy(c.value.storageTableName)
             /\ Truthy(c.value.storagePartitionKey)))

(***************************************************************************)
(* parseInt(string, 10) on a string given as its sequence of characters:   *)
(* leading white space is skipped, one sign is read, then the longest run  *)
(* of decimal digits; whatever follows is ignored.  No digit: NaN.         *)
(***************************************************************************)
DigitValue ==
  [ c \in {"0", "1", "2", "3", "4", "5", "6", "7", "8", "9"} |->
      CASE c = "0" -> 0 [] c = "1" -> 1 [] c = "2" -> 2 [] c = "3" -> 3
        [] c = "4" -> 4 [] c = "5" -> 5 [] c = "6" -> 6 [] c = "7" -> 7
        [] c = "8" -> 8 [] c = "9" -> 9 ]

IsDigit(c) == c \in DOMAIN DigitValue

WhiteSpace == {" "}

RECURSIVE TrimStart(_)
TrimStart(s) ==
  IF s # << >> /\ Head(s) \in WhiteSpace THEN TrimStart(Tail(s)) ELSE s

\* The value of the leading digits of s, continuing from acc.
RECURSIVE ReadDigits(_, _)
ReadDigits(s, acc) ==
  IF s # << >> /\ IsDigit(Head(s))
  THEN ReadDigits(Tail(s), acc * 10 + DigitValue[Head(s)])
  ELSE acc

parseInt(str) ==
  LET t == TrimStart(str.chars)
      signed == t # << >> /\ Head(t) \in {"-", "+"}
      sign == IF t # << >> /\ Head(t) = "-" THEN -1 ELSE 1
      body == IF signed THEN Tail(t) ELSE t
  IN  IF body # << >> /\ IsDigit(Head(body))
      THEN Num(sign * ReadDigits(body, 0))
      ELSE NaN

isNaN(v) == v.nan

DefaultInterval == Str(<<"3", "0">>)

\* cacheRefreshInterval without the fallback: NaN * 1000 is NaN.
cacheRefreshIntervalNoFallback(e) ==
  LET interval == Or(e["REACT_APP_CACHE_REFRESH_INTERVAL_IN_SEC"], DefaultInterval)
      val == parseInt(interval)
  IN  Return(IF isNaN(val) THEN NaN ELSE Num(val.value * 1000))

cacheRefreshInterval(e) ==
  LET interval == Or(e["REACT_APP_CACHE_REFRESH_INTERVAL_IN_SEC"], DefaultInterval)
      val == parseInt(interval)
  IN  Return(IF isNaN(val) THEN Num(30 * 1000) ELSE Num(val.value * 1000))

(***************************************************************************)
(* lib/author.ts                                                           *)
(***************************************************************************)
\* spektate/lib/IDeployment.getRepositoryFromURL: the repository reference
\* derived from a repository URL.
getRepositoryFromURL(url) == [fromURL |-> url]

Author == [name |-> Str(<<"n">>)]

\* spektate/lib/IDeployment.fetchAuthor: what the awaited call may end in, an
\* author, none found, or a failure of the lookup.
FetchAuthorOutcomes ==
  { Return(Author), Return(Undefined), Throw(Error("fetchAuthor failed")) }

NotRecognizedMessage == "Repository could not be recognized"

\* The selection without the commit override of the sourceRepo branch.
SelectCommitAndRepoKeepsCommit(d) ==
  LET commit0 == Or(OptProp(d.srcToDockerBuild, "sourceVersion"),
                    OptProp(d.hldToManifestBuild, "sourceVersion"))
      repo0 == Or(OptProp(d.srcToDockerBuild, "repository"),
                  OptProp(d.hldToManifestBuild, "repository"))
      first == ~Truthy(repo0) /\ Truthy(d.sourceRepo)
      repo1 == IF first THEN getRepositoryFromURL(d.sourceRepo) ELSE repo0
      second == ~Truthy(repo1) /\ Truthy(d.hldRepo)
      repo2 == IF second THEN getRepositoryFromURL(d.hldRepo) ELSE repo1
      commit2 == IF second THEN OptProp(d.hldToManifestBuild, "sourceVersion")
                 ELSE commit0
  IN  [commit |-> commit2, repo |-> repo2]

\* Lines 18-32 of get(): the commit and the repository it selects.
SelectCommitAndRepo(d) ==
  LET commit0 == Or(OptProp(d.srcToDockerBuild, "sourceVersion"),
                    OptProp(d.hldToManifestBuild, "sourceVersion"))
      repo0 == Or(OptProp(d.srcToDockerBuild, "repository"),
                  OptProp(d.hldToManifestBuild, "repository"))
      first == ~Truthy(repo0) /\ Truthy(d.sourceRepo)
      repo1 == IF first THEN getRepositoryFromURL(d.sourceRepo) ELSE repo0
      commit1 == IF first THEN OptProp(d.srcToDockerBuild, "sourceVersion")
                 ELSE commit0
      second == ~Truthy(repo1) /\ Truthy(d.hldRepo)
      repo2 == IF second THEN getRepositoryFromURL(d.hldRepo) ELSE repo1
      commit2 == IF second THEN OptProp(d.hldToManifestBuild, "sourceVersion")
                 ELSE commit1
  IN  [commit |-> commit2, repo |-> repo2]

\* Line 38: the access token handed to fetchAuthor.
AccessTokenArgument(config) ==
  Or(Prop(config, "sourceRepoAccessToken"), Prop(config, "pipelineAccessToken"))

\* get returning absent without the diagnostic line.
getWithoutLog(e, d, fetched) ==
  LET c == getConfig(e)
      sel == SelectCommitAndRepo(d)
  IN  IF c.kind = "throw"
      THEN [outcome |-> c, calls |-> << >>, logged |-> << >>]
      ELSE IF Truthy(sel.commit) /\ Truthy(sel.repo)
      THEN [ outcome |-> fetched,
             calls |-> << [ repo |-> sel.repo, commit |-> sel.commit,
                            accessToken |-> AccessTokenArgument(c.value) ] >>,
             logged |-> << >> ]
      ELSE [outcome |-> Return(Undefined), calls |-> << >>, logged |-> << >>]

\* get(deployment) when fetchAuthor ends in `fetched`:
\* the outcome, the fetchAuthor calls made and the lines logged.
get(e, d, fetched) ==
  LET c == getConfig(e)
      sel == SelectCommitAndRepo(d)
  IN  IF c.kind = "throw"
      THEN [outcome |-> c, calls |-> << >>, logged |-> << >>]
      ELSE IF Truthy(sel.commit) /\ Truthy(sel.repo)
      THEN [ outcome |-> fetched,
             calls |-> << [ repo |-> sel.repo, commit |-> sel.commit,
                            accessToken |-> AccessTokenArgument(c.value) ] >>,
             logged |-> << >> ]
      ELSE [ outcome |-> Return(Undefined), calls |-> << >>,
             logged |-> << NotRecognizedMessage >> ]

(***************************************************************************)
(* Inputs                                                                  *)
(***************************************************************************)
\* Longest value of REACT_APP_CACHE_REFRESH_INTERVAL_IN_SEC tried.
MaxLen == 3

Alphabet == {"0", "1", "7", "a", "-", "+", " "}

Strings(n) == UNION { [1..k -> Alphabet] : k \in 0..n }

SetOrUnset == { Undefined, Str(<<"a">>) }

EnvValues == { Undefined, EmptyString, Str(<<"a">>) }

DistinctEnvValues == EnvValues \cup { Str(<<"b">>) }

\* A build result of the source stage (i = 1) or of the HLD stage (i = 2),
\* or no build result at all.
Builds(i) ==
  { Undefined } \cup
  [ sourceVersion : { Undefined, EmptyString, Str(<<"c", IF i = 1 THEN "1" ELSE "2">>) },
    repository : { Undefined, [reponame |-> IF i = 1 THEN "R1" ELSE "R2"] } ]

Urls(i) ==
  { Undefined, EmptyString, Str(<<"u", IF i = 1 THEN "1" ELSE "2">>) }

Deployments ==
  [ srcToDockerBuild : Builds(1), hldToManifestBuild : Builds(2),
    sourceRepo : Urls(1), hldRepo : Urls(2) ]

EmptyDeployment ==
  [ srcToDockerBuild |-> Undefined, hldToManifestBuild |-> Undefined,
    sourceRepo |-> Undefined, hldRepo |-> Undefined ]

Idle ==
  /\ op = "none"
  /\ result = Undefined
  /\ fetchCalls = << >>
  /\ console = << >>

(***************************************************************************)
(* One call of each exported function                                      *)
(***************************************************************************)
Call(name, outcome) ==
  /\ op = "none"
  /\ op' = name
  /\ result' = outcome
  /\ UNCHANGED <<env, deployment, fetchCalls, console>>

GetPipelineConfig == Call("getPipelineConfig", Return(getPipelineConfig(env)))

GetReposConfig == Call("getReposConfig", Return(getReposConfig(env)))

GetConfig == Call("getConfig", getConfig(env))

IsAzdo == Call("isAzdo", isAzdo(env))

IsGithubActions == Call("isGithubActions", isGithubActions(env))

IsGitlab == Call("isGitlab", isGitlab(env))

IsConfigValid == Call("isConfigValid", isConfigValid(env))

CacheRefreshInterval == Call("cacheRefreshInterval", cacheRefreshInterval(env))

Get ==
  /\ op = "none"
  /\ \E fetched \in FetchAuthorOutcomes :
       LET g == get(env, deployment, fetched)
       IN  /\ op' = "get"
           /\ result' = g.outcome
           /\ fetchCalls' = fetchCalls \o g.calls
           /\ console' = console \o g.logged
  /\ UNCHANGED <<env, deployment>>

(***************************************************************************)
(* Specifications                                                          *)
(***************************************************************************)
\* Pipeline resolution over every setting of the pipeline variables.
InitPipeline ==
  /\ \E f \in [PipelineVars -> DistinctEnvValues] : env = f @@ EmptyEnv
  /\ deployment = EmptyDeployment
  /\ Idle

NextPipeline == GetPipelineConfig

SpecPipeline == InitPipeline /\ [][NextPipeline]_vars

\* Repository resolution over every setting of the repository variables, with
\* the pipeline provider varying too.
InitRepos ==
  /\ \E f \in [RepoVars \ {"REACT_APP_AZDO_ACCESS_TOKEN", "REACT_APP_GITHUB_TOKEN"}
                 -> EnvValues],
        g \in [{"REACT_APP_AZDO_ACCESS_TOKEN", "REACT_APP_GITHUB_TOKEN",
                "REACT_APP_AZDO_ORG", "REACT_APP_AZDO_PROJECT"} -> SetOrUnset] :
       env = f @@ g @@ EmptyEnv
  /\ deployment = EmptyDeployment
  /\ Idle

NextRepos == GetReposConfig \/ GetPipelineConfig

SpecRepos == InitRepos /\ [][NextRepos]_vars

\* The whole configuration: every provider variable set or unset, every
\* storage variable set or unset, the table name also empty.
ProviderVars == (PipelineVars \cup RepoVars) \ {"REACT_APP_AZDO_ACCESS_TOKEN"}

InitConfig ==
  /\ \E f \in [ProviderVars -> SetOrUnset],
        g \in [StorageVars \ {"REACT_APP_STORAGE_TABLE_NAME"} -> SetOrUnset],
        h \in [{"REACT_APP_STORAGE_TABLE_NAME"} -> EnvValues] :
       env = f @@ g @@ h @@ EmptyEnv
  /\ deployment = EmptyDeployment
  /\ Idle

NextConfig == GetConfig \/ IsAzdo \/ IsGithubActions \/ IsGitlab \/ IsConfigValid

SpecConfig == InitConfig /\ [][NextConfig]_vars

\* The cache refresh interval over every short string of the alphabet.
InitCache ==
  /\ \E v \in { Undefined } \cup { Str(s) : s \in Strings(MaxLen) } :
       env = [EmptyEnv EXCEPT !["REACT_APP_CACHE_REFRESH_INTERVAL_IN_SEC"] = v]
  /\ deployment = EmptyDeployment
  /\ Idle

NextCache == CacheRefreshInterval

SpecCache == InitCache /\ [][NextCache]_vars

\* Author resolution over every deployment, in environments that resolve to
\* each provider or to none.
AuthorEnvVars ==
  { "REACT_APP_AZDO_ORG", "REACT_APP_AZDO_PROJECT", "REACT_APP_AZDO_ACCESS_TOKEN",
    "REACT_APP_AZDO_MANIFEST_REPO", "REACT_APP_GITHUB_TOKEN",
    "REACT_APP_GITHUB_MANIFEST_REPO", "REACT_APP_GITHUB_HLD_REPO",
    "REACT_APP_GITHUB_SOURCE_REPO" }

InitAuthor ==
  /\ \E f \in [AuthorEnvVars -> SetOrUnset] : env = f @@ EmptyEnv
  /\ deployment \in Deployments
  /\ Idle

NextAuthor == Get

SpecAuthor == InitAuthor /\ [][NextAuthor]_vars

(***************************************************************************)
(* Properties                                                              *)
(***************************************************************************)
\* The variable is set: present and not the empty string.
Set(n) == Truthy(env[n])

AzdoPipeline == Set("REACT_APP_AZDO_ORG") /\ Set("REACT_APP_AZDO_PROJECT")

GithubPipeline == Set("REACT_APP_GITHUB_TOKEN")

GitlabPipeline == Set("REACT_APP_GITLAB_TOKEN")

AzdoRepos == Set("REACT_APP_AZDO_MANIFEST_REPO")

GithubRepos ==
  /\ Set("REACT_APP_GITHUB_MANIFEST_REPO")
  /\ Set("REACT_APP_GITHUB_HLD_REPO")
  /\ Set("REACT_APP_GITHUB_SOURCE_REPO")

GitlabRepos ==
  /\ Set("REACT_APP_GITLAB_SOURCE_PROJECT_ID")
  /\ Set("REACT_APP_GITLAB_HLD_PROJECT_ID")
  /\ Set("REACT_APP_GITLAB_MANIFEST_PROJECT_ID")
  /\ Set("REACT_APP_GITLAB_TOKEN")

\* C1: getPipelineConfig picks Azure DevOps when ORG and PROJECT are set,
\* else GitHub Actions when GITHUB_TOKEN is set, else GitLab when GITLAB_TOKEN
\* is set; the config it returns holds the matched provider's variables, and
\* it is absent exactly when none of the three conditions holds.
C1_PipelinePrecedence ==
  op = "getPipelineConfig" =>
    LET r == result.value
    IN  /\ result.kind = "return"
        /\ AzdoPipeline =>
             /\ r.pipelineType = 0
             /\ r.pipelineConfig =
                  [ org |-> env["REACT_APP_AZDO_ORG"],
                    project |-> env["REACT_APP_AZDO_PROJECT"],
                    accessToken |-> env["REACT_APP_AZDO_ACCESS_TOKEN"] ]
        /\ (~AzdoPipeline /\ GithubPipeline) =>
             /\ r.pipelineType = 1
             /\ r.pipelineConfig = [accessToken |-> env["REACT_APP_GITHUB_TOKEN"]]
        /\ (~AzdoPipeline /\ ~GithubPipeline /\ GitlabPipeline) =>
             /\ r.pipelineType = 2
             /\ r.pipelineConfig = [accessToken |-> env["REACT_APP_GITLAB_TOKEN"]]
        /\ (r.pipelineConfig = Undefined) <=>
             (~AzdoPipeline /\ ~GithubPipeline /\ ~GitlabPipeline)

\* Both tokens set and ORG set alone, with PROJECT empty: GitHub Actions won.
C1_Witness ==
  /\ op = "getPipelineConfig"
  /\ Set("REACT_APP_AZDO_ORG")
  /\ env["REACT_APP_AZDO_PROJECT"] = EmptyString
  /\ GithubPipeline
  /\ GitlabPipeline
  /\ result.value.pipelineType = 1

\* C2: getReposConfig picks Azure DevOps when AZDO_MANIFEST_REPO is set, else
\* GitHub when the three GitHub repositories are set, else GitLab when the
\* three project ids and GITLAB_TOKEN are set, whatever the pipeline variables
\* are; the config is absent exactly when none of the three conditions holds.
C2_ReposPrecedence ==
  op = "getReposConfig" =>
    LET r == result.value
    IN  /\ result.kind = "return"
        /\ AzdoRepos =>
             /\ r.repoType = 0
             /\ r.reposConfig =
                  [ manifestRepo |-> env["REACT_APP_AZDO_MANIFEST_REPO"],
                    accessToken |-> env["REACT_APP_AZDO_ACCESS_TOKEN"] ]
        /\ (~AzdoRepos /\ GithubRepos) =>
             /\ r.repoType = 1
             /\ r.reposConfig =
                  [ manifestRepo |-> env["REACT_APP_GITHUB_MANIFEST_REPO"],
                    hldRepo |-> env["REACT_APP_GITHUB_HLD_REPO"],
                    sourceRepo |-> env["REACT_APP_GITHUB_SOURCE_REPO"],
                    accessToken |-> env["REACT_APP_GITHUB_TOKEN"] ]
        /\ (~AzdoRepos /\ ~GithubRepos /\ GitlabRepos) =>
             /\ r.repoType = 2
             /\ r.reposConfig =
                  [ manifestProjectId |-> env["REACT_APP_GITLAB_MANIFEST_PROJECT_ID"],
                    hldRepoProjectId |-> env["REACT_APP_GITLAB_HLD_PROJECT_ID"],
                    sourceRepoProjectId |-> env["REACT_APP_GITLAB_SOURCE_PROJECT_ID"],
                    accessToken |-> env["REACT_APP_GITLAB_TOKEN"] ]
        /\ (r.reposConfig = Undefined) <=>
             (~AzdoRepos /\ ~GithubRepos /\ ~GitlabRepos)

\* The pipeline is Azure DevOps, GITHUB_TOKEN is unset, the GitHub and the
\* GitLab repositories are both complete: the GitHub repositories won.
C2_Witness ==
  /\ op = "getReposConfig"
  /\ AzdoPipeline
  /\ ~GithubPipeline
  /\ ~AzdoRepos
  /\ GithubRepos
  /\ GitlabRepos
  /\ result.value.repoType = 1

StorageFieldOf ==
  [ storageAccessKey |-> "REACT_APP_STORAGE_ACCESS_KEY",
    storageAccountName |-> "REACT_APP_STORAGE_ACCOUNT_NAME",
    storagePartitionKey |-> "REACT_APP_STORAGE_PARTITION_KEY",
    storageTableName |-> "REACT_APP_STORAGE_TABLE_NAME" ]

\* C3: getConfig returns a Config exactly when the pipeline and the repository
\* resolution are both present and throws the "could not be recognized" error
\* otherwise, whatever the storage variables are; each storage field is the
\* variable's value, or the empty string when the variable is unset.
C3_ConfigOrThrow ==
  op = "getConfig" =>
    LET present == /\ getPipelineConfig(env).pipelineConfig # Undefined
                   /\ getReposConfig(env).reposConfig # Undefined
    IN  /\ present => result.kind = "return"
        /\ ~present => result = Throw(Error(ConfigErrorMessage))
        /\ result.kind = "return" =>
             \A f \in DOMAIN StorageFieldOf :
               result.value[f] =
                 IF Set(StorageFieldOf[f]) THEN env[StorageFieldOf[f]] ELSE EmptyString

\* A Config was returned with no storage variable set.
C3_Witness ==
  /\ op = "getConfig"
  /\ result.kind = "return"
  /\ \A n \in StorageVars : env[n] = Undefined
  /\ \A f \in DOMAIN StorageFieldOf : result.value[f] = EmptyString

\* A provider's required set: its pipeline condition and its repository
\* condition together.
AzdoSet == AzdoPipeline /\ AzdoRepos

GithubSet == GithubPipeline /\ GithubRepos

GitlabSet == GitlabPipeline /\ GitlabRepos

\* The provider (by its type number) whose required set alone is satisfied,
\* or -1 when none or several are.
OnlyProvider ==
  CASE AzdoSet /\ ~GithubSet /\ ~GitlabSet -> 0
    [] ~AzdoSet /\ GithubSet /\ ~GitlabSet -> 1
    [] ~AzdoSet /\ ~GithubSet /\ GitlabSet -> 2
    [] OTHER -> -1

\* The Config and the three predicates all name provider p.
TaggedAs(p) ==
  /\ op = "getConfig" =>
       /\ result.kind = "return"
       /\ result.value.pipelineType = p
       /\ result.value.repoType = p
  /\ op = "isAzdo" => result = Return(Bool(p = 0))
  /\ op = "isGithubActions" => result = Return(Bool(p = 1))
  /\ op = "isGitlab" => result = Return(Bool(p = 2))

\* C4 as stated: whenever exactly one provider's required set is satisfied,
\* getConfig returns a Config of that provider's pipeline and repository
\* type, that provider's predicate is true and the other two are false.
C4_ExactlyOneProviderTagged ==
  OnlyProvider # -1 => TaggedAs(OnlyProvider)

\* No condition that getPipelineConfig or getReposConfig tries before
\* provider p's own is satisfied.
NoEarlierMatch(p) ==
  /\ p >= 1 => ~AzdoPipeline /\ ~AzdoRepos
  /\ p >= 2 => ~GithubPipeline /\ ~GithubRepos

\* C4 amended: whenever exactly one provider's required set is satisfied and
\* no pipeline or repository condition of a provider earlier in the order is
\* satisfied, getConfig returns a Config of that provider's pipeline and
\* repository type, that provider's predicate is true and the other two false.
C4_OnlyProviderTagged ==
  (OnlyProvider # -1 /\ NoEarlierMatch(OnlyProvider)) => TaggedAs(OnlyProvider)

\* GitLab alone is complete, a GitHub repository is set besides, and isGitlab
\* answered true.
C4_Witness ==
  /\ OnlyProvider = 2
  /\ NoEarlierMatch(2)
  /\ Set("REACT_APP_GITHUB_HLD_REPO")
  /\ op = "isGitlab"
  /\ result = Return(Bool(TRUE))

StorageFields == DOMAIN StorageFieldOf

\* How many of the three provider predicates hold.
ProvidersHolding ==
  Cardinality({ r \in { <<"azdo", isAzdo(env)>>, <<"github", isGithubActions(env)>>,
                        <<"gitlab", isGitlab(env)>> } : r[2] = Return(Bool(TRUE)) })

\* C5: when getConfig succeeds, isConfigValid returns true only if exactly one
\* of isAzdo, isGithubActions, isGitlab holds and the four storage fields are
\* all non-empty; it returns false as soon as one storage field is empty.
C5_ValidOnlyIfProviderAndStorage ==
  (op = "isConfigValid" /\ getConfig(env).kind = "return") =>
    LET config == getConfig(env).value
        anyEmpty == \E f \in StorageFields : config[f] = EmptyString
    IN  /\ result.kind = "return"
        /\ result.value.type = "boolean"
        /\ result.value.value => (ProvidersHolding = 1 /\ ~anyEmpty)
        /\ anyEmpty => ~result.value.value

\* The provider configuration is valid, only the partition key is empty, and
\* isConfigValid answered false.
C5_Witness ==
  /\ op = "isConfigValid"
  /\ ProvidersHolding = 1
  /\ \A n \in StorageVars \ {"REACT_APP_STORAGE_PARTITION_KEY"} : Set(n)
  /\ ~Set("REACT_APP_STORAGE_PARTITION_KEY")
  /\ result = Return(Bool(FALSE))

\* The integer a sequence of decimal digits denotes, by place value.
RECURSIVE DecimalValue(_)
DecimalValue(ds) ==
  IF ds = << >> THEN 0
  ELSE DecimalValue(SubSeq(ds, 1, Len(ds) - 1)) * 10 + DigitValue[ds[Len(ds)]]

AllDigits(ds) == ds # << >> /\ \A i \in 1..Len(ds) : IsDigit(ds[i])

\* A valid integer string: decimal digits, after at most one sign.
ValidInteger(s) ==
  \/ AllDigits(s)
  \/ s # << >> /\ s[1] \in {"-", "+"} /\ AllDigits(Tail(s))

IntegerValue(s) ==
  IF s[1] = "-" THEN 0 - DecimalValue(Tail(s))
  ELSE IF s[1] = "+" THEN DecimalValue(Tail(s))
  ELSE DecimalValue(s)

\* A non-numeric string: not empty, and no digit anywhere in it.
NonNumeric(s) == s # << >> /\ \A i \in 1..Len(s) : ~IsDigit(s[i])

SrcVersion == OptProp(deployment.srcToDockerBuild, "sourceVersion")

HldVersion == OptProp(deployment.hldToManifestBuild, "sourceVersion")

SrcRepository == OptProp(deployment.srcToDockerBuild, "repository")

HldRepository == OptProp(deployment.hldToManifestBuild, "repository")

\* get() called fetchAuthor.
Fetched == op = "get" /\ fetchCalls # << >>

\* C6: when get calls fetchAuthor, the access token passed is the access token
\* of the resolved Config's repository configuration if that is present, and
\* the access token of its pipeline configuration otherwise.
C6_AccessTokenPassed ==
  Fetched =>
    LET config == getConfig(env).value
    IN  fetchCalls[1].accessToken =
          Or(Prop(config.repoConfig, "accessToken"),
             Prop(config.pipelineConfig, "accessToken"))

\* Neither build result carries a repository and sourceRepo is present.
SourceRepoFallback ==
  /\ ~Truthy(SrcRepository)
  /\ ~Truthy(HldRepository)
  /\ Truthy(deployment.sourceRepo)

\* What C7 says of one finished call of get.
SourceRepoPairing ==
  /\ Fetched =>
       /\ Len(fetchCalls) = 1
       /\ fetchCalls[1].repo = getRepositoryFromURL(deployment.sourceRepo)
       /\ fetchCalls[1].commit = SrcVersion
  /\ ~Truthy(SrcVersion) => (fetchCalls = << >> /\ result = Return(Undefined))

\* C7 as stated: for every deployment with no repository on either build
\* result and a sourceRepo, get passes the repository derived from sourceRepo
\* and srcToDockerBuild.sourceVersion to fetchAuthor; without that commit it
\* does not call fetchAuthor and the result is absent.
C7_SourceRepoPairing ==
  (op = "get" /\ SourceRepoFallback) => SourceRepoPairing

\* C7 amended: the same, for calls in which getConfig succeeds; when getConfig
\* throws, get throws that error and fetchAuthor is not called.
C7_SourceRepoPairingWhenConfigured ==
  (op = "get" /\ SourceRepoFallback) =>
    IF getConfig(env).kind = "return" THEN SourceRepoPairing
    ELSE fetchCalls = << >> /\ result = Throw(Error(ConfigErrorMessage))

\* The HLD build result has a commit, the source build result has another,
\* sourceRepo is the only repository: the source commit went with it.
C7_Witness ==
  /\ SourceRepoFallback
  /\ Truthy(HldVersion)
  /\ Truthy(deployment.hldRepo)
  /\ Fetched
  /\ fetchCalls[1].commit = Str(<<"c", "1">>)
  /\ fetchCalls[1].repo = [fromURL |-> Str(<<"u", "1">>)]

\* What C8 says of one finished call of get.
Unrecognized ==
  /\ result = Return(Undefined)
  /\ fetchCalls = << >>
  /\ console = << NotRecognizedMessage >>

\* C8 as stated: for the deployment with none of its four optional fields,
\* get returns absent without calling fetchAuthor and without an error, and
\* logs "Repository could not be recognized" once.
C8_EmptyDeploymentUnrecognized ==
  (op = "get" /\ deployment = EmptyDeployment) => Unrecognized

\* C8 amended: the same, for calls in which getConfig succeeds; when getConfig
\* throws, get throws that error, calls nothing and logs nothing.
C8_EmptyDeploymentWhenConfigured ==
  (op = "get" /\ deployment = EmptyDeployment) =>
    IF getConfig(env).kind = "return" THEN Unrecognized
    ELSE /\ result = Throw(Error(ConfigErrorMessage))
         /\ fetchCalls = << >>
         /\ console = << >>

\* getConfig succeeded, the deployment is empty and the message was logged.
C8_Witness ==
  /\ op = "get"
  /\ deployment = EmptyDeployment
  /\ getConfig(env).kind = "return"
  /\ console = << NotRecognizedMessage >>
  /\ result = Return(Undefined)

\* C10: when get calls fetchAuthor, the commit and the repository passed come
\* from one stage: the source stage's commit with the source build's
\* repository or the sourceRepo URL, or the HLD stage's commit with the HLD
\* build's repository or the hldRepo URL.
C10_CommitAndRepoOfOneStage ==
  Fetched =>
    LET call == fetchCalls[1]
    IN  \/ /\ call.commit = SrcVersion
           /\ call.repo \in { SrcRepository, getRepositoryFromURL(deployment.sourceRepo) }
        \/ /\ call.commit = HldVersion
           /\ call.repo \in { HldRepository, getRepositoryFromURL(deployment.hldRepo) }

====
